---- MODULE Spec2Model ----
(***************************************************************************)
(* media-scout: the retrieval core (src/src/utils.py, src/src/retrieval.py) *)
(*                                                                         *)
(* Strings are sequences of one-character strings (chunk_text) or of       *)
(* tokens separated by the whitespace token " " (ranking).  Python         *)
(* offsets are kept 0-based in c_i and in PySlice; positions of a corpus   *)
(* are 1-based (position p here is Python index p - 1).                    *)
(***************************************************************************)
EXTENDS Integers, Sequences, FiniteSets, TLC

VARIABLES
    corpus,     \* the list handed to Retriever(...) / top_k_passages(...)
    retr,       \* the Retriever object: "absent", "built" or "raised"
    call,       \* the last ranking call: its arguments and local values
    out,        \* the value the last ranking call returned
    c_fn,       \* which chunk_text runs: "retrieval" or "utils"
    c_text,     \* chunk_text argument text
    c_chars,    \* chunk_text argument chunk_chars
    c_overlap,  \* chunk_text argument overlap
    c_norm,     \* local `text` after normalisation / strip
    c_i,        \* local i, the 0-based window start
    c_chunks,   \* local chunks
    c_pc,       \* "start", "loop", "done"
    s_fn,       \* which summarizer runs
    s_text,     \* make_bullets / bullet_summary argument text
    s_chunks,   \* extractive_bullets argument chunks (their texts)
    s_n,        \* the summarizer's argument n / bullets
    s_out,      \* the list the summarizer returned
    s_pc,       \* "start", "done"
    f_op,       \* which fetcher runs
    f_key,      \* whether the fetcher's argument doc carries a "key"
    f_sent,     \* the outcome of every HTTP request the fetcher issued, in order
    f_result,   \* how the fetcher ended: returned or raised
    f_pc,       \* "called", "done"
    t_fn,       \* which tmdb_get runs: "app" or "ml"
    t_v3,       \* the v3 API key the call sees
    t_v4,       \* the v4 read token the call sees
    t_sent,     \* the outcome of every HTTP request tmdb_get issued
    t_result,   \* how tmdb_get ended
    t_pc,       \* "called", "done"
    m_env,      \* the import-time environment: joblib importable, artifact present, load succeeds
    m_model,    \* MOOD_MODEL: "unset", "None" or "model"
    m_text,     \* predict_mood_from_text argument text
    m_pred,     \* what the loaded model does on predict_proba / classes_
    m_result,   \* how predict_mood_from_text ended
    m_pc,       \* "import", "loaded", "done"
    p_videos,   \* pick_best_youtube_trailer argument videos
    p_result,   \* the URL it returned, << >> for None
    p_pc,       \* "called", "done"
    b_per_mood, \* build argument per_mood
    b_pages,    \* build argument pages
    b_mood,     \* position of the mood loop in MOODS, 1-based
    b_page,     \* the page the inner loop is at
    b_collected, \* local collected
    b_seen,     \* local seen_ids
    b_rows,     \* local rows
    b_totals,   \* the collected total reported for each finished mood
    b_file,     \* the rows written to the dataset file
    b_pc        \* "loop", "done", "raised"

vars == <<corpus, retr, call, out,
          c_fn, c_text, c_chars, c_overlap, c_norm, c_i, c_chunks, c_pc,
          s_fn, s_text, s_chunks, s_n, s_out, s_pc,
          f_op, f_key, f_sent, f_result, f_pc,
          t_fn, t_v3, t_v4, t_sent, t_result, t_pc,
          m_env, m_model, m_text, m_pred, m_result, m_pc,
          p_videos, p_result, p_pc,
          b_per_mood, b_pages, b_mood, b_page, b_collected, b_seen, b_rows, b_totals, b_file, b_pc>>

rankVars  == <<corpus, retr, call, out>>
chunkVars == <<c_fn, c_text, c_chars, c_overlap, c_norm, c_i, c_chunks, c_pc>>
sumVars   == <<s_fn, s_text, s_chunks, s_n, s_out, s_pc>>
fetchVars == <<f_op, f_key, f_sent, f_result, f_pc>>
tmdbVars == <<t_fn, t_v3, t_v4, t_sent, t_result, t_pc>>
moodVars == <<m_env, m_model, m_text, m_pred, m_result, m_pc>>
pickVars == <<p_videos, p_result, p_pc>>
buildVars == <<b_per_mood, b_pages, b_mood, b_page, b_collected, b_seen, b_rows, b_totals, b_file, b_pc>>

\* what an operation of one component leaves alone
notRank  == <<chunkVars, sumVars, fetchVars, tmdbVars, moodVars, pickVars, buildVars>>
notChunk == <<rankVars, sumVars, fetchVars, tmdbVars, moodVars, pickVars, buildVars>>
notSum   == <<rankVars, chunkVars, fetchVars, tmdbVars, moodVars, pickVars, buildVars>>
notFetch == <<rankVars, chunkVars, sumVars, tmdbVars, moodVars, pickVars, buildVars>>
notTmdb == <<rankVars, chunkVars, sumVars, fetchVars, moodVars, pickVars, buildVars>>
notMood == <<rankVars, chunkVars, sumVars, fetchVars, tmdbVars, pickVars, buildVars>>
notPick == <<rankVars, chunkVars, sumVars, fetchVars, tmdbVars, moodVars, buildVars>>
notBuild == <<rankVars, chunkVars, sumVars, fetchVars, tmdbVars, moodVars, pickVars>>

-----------------------------------------------------------------------------
(* Bounds *)

MaxCorpus == 3      \* longest corpus
MaxK      == 3      \* largest k
MaxScore  == 2      \* similarity levels 0..MaxScore
MaxLen    == 4      \* longest chunk_text input
MaxChunkChars == 4  \* largest chunk_chars
MaxOverlap    == 2  \* largest overlap
MaxChunks     == 6  \* utils.chunk_text is followed up to this many chunks

-----------------------------------------------------------------------------
(* Python helpers *)

Min2(a, b) == IF a <= b THEN a ELSE b
Max2(a, b) == IF a >= b THEN a ELSE b

SetMin(S) == CHOOSE x \in S : \A y \in S : x <= y
SetMax(S) == CHOOSE x \in S : \A y \in S : x >= y

\* Python s[lo:hi] for integers lo, hi (0-based, negative counts from the end)
PySlice(s, lo, hi) ==
    LET n  == Len(s)
        nl == IF lo < 0 THEN Max2(lo + n, 0) ELSE Min2(lo, n)
        nh == IF hi < 0 THEN Max2(hi + n, 0) ELSE Min2(hi, n)
    IN  IF nh <= nl THEN << >> ELSE SubSeq(s, nl + 1, nh)

Reverse(s) == [i \in 1..Len(s) |-> s[Len(s) + 1 - i]]

Whitespace == {" ", "\t"}

\* str.strip()
Strip(s) ==
    LET keep == {i \in 1..Len(s) : s[i] \notin Whitespace}
    IN  IF keep = {} THEN << >> ELSE SubSeq(s, SetMin(keep), SetMax(keep))

-----------------------------------------------------------------------------
(* TfidfVectorizer(stop_words="english") and cosine similarity            *)

StopWords == {"the"}

\* the vocabulary terms of a text: its tokens minus whitespace and stop words
Terms(text) == {text[i] : i \in 1..Len(text)} \ (Whitespace \cup StopWords)

TermCount(text, t) == Cardinality({i \in 1..Len(text) : text[i] = t})

SameTermVector(a, b) ==
    \A t \in Terms(a) \cup Terms(b) : TermCount(a, t) = TermCount(b, t)

Vocabulary(docs) == UNION {Terms(docs[i]) : i \in 1..Len(docs)}

\* The similarity vectors the vectorizer can yield for a query against docs,
\* on an integer scale: 0 exactly when query and chunk share no vocabulary
\* term, and equal for chunks with equal term vectors.
Similarities(query, docs) ==
    {s \in [1..Len(docs) -> 0..MaxScore] :
        /\ \A i \in 1..Len(docs) :
              (s[i] = 0) <=> (Terms(query) \cap Terms(docs[i]) = {})
        /\ \A i, j \in 1..Len(docs) :
              SameTermVector(docs[i], docs[j]) => s[i] = s[j]}

\* the threshold 1e-6 on that scale: level 1 is positive but below it
Threshold == 2

Permutations1(n) ==
    {p \in [1..n -> 1..n] : \A i, j \in 1..n : i # j => p[i] # p[j]}

\* numpy argsort (default kind, not stable): any permutation that sorts the
\* keys ascending
Argsort(keys) ==
    {p \in Permutations1(Len(keys)) :
        \A i \in 1..(Len(keys) - 1) : keys[p[i]] <= keys[p[i + 1]]}

Negate(s) == [i \in 1..Len(s) |-> 0 - s[i]]

-----------------------------------------------------------------------------
(* Ranking: Retriever (utils.py) and top_k_passages (retrieval.py)         *)

DocTexts == {<<"the", "cat">>, <<"dog">>, <<"the">>, <<"summary", "cat">>}

Queries == {<< >>, <<" ", "\t">>, <<"cat">>, <<"the">>, <<"bird">>,
            <<"cat", " ", "dog">>}

Corpora == UNION {[1..n -> DocTexts] : n \in 0..MaxCorpus}

KRange == (0 - 1)..MaxK

NoCall == [fn |-> "none", query |-> << >>, k |-> 0, q |-> << >>,
           sims |-> << >>, raised |-> FALSE]

\* TfidfVectorizer.fit_transform raises ValueError on an empty vocabulary
FitRaises(docs) == Vocabulary(docs) = {}

\* variant: fit_transform without the `if chunks else None` guard
InitRaisesUnguarded(chunks) == FitRaises(chunks)

\* `self.X = self.vectorizer.fit_transform([...]) if chunks else None`
InitRaises(chunks) == chunks # << >> /\ FitRaises(chunks)

\* Retriever.__init__
RetrieverInit ==
    /\ retr = "absent"
    /\ retr' = IF InitRaises(corpus) THEN "raised" ELSE "built"
    /\ UNCHANGED <<corpus, call, out>>
    /\ UNCHANGED notRank

\* variant: the query is used as given
EffectiveQueryAsGiven(query) == query

\* `if not query.strip(): query = "summary"`
EffectiveQuery(query) ==
    IF Strip(query) = << >> THEN <<"summary">> ELSE query

\* `if sims.max() < 1e-6`
LowSignal(sims) == \A i \in 1..Len(sims) : sims[i] < Threshold

\* variant: the low-signal branch walks self.chunks, not self.chunks[:k]
FallbackResultAll(chunks, sims, k) ==
    [i \in 1..Len(chunks) |-> [score |-> 0, pos |-> i]]

\* the low-signal branch: (0.0, c) for c in self.chunks[:k]
FallbackResult(chunks, sims, k) ==
    LET head == PySlice(chunks, 0, k)
    IN  [i \in 1..Len(head) |-> [score |-> 0, pos |-> i]]

\* variant: no [:k]
SearchIdxsUncut(p, k) == Reverse(p)

\* variant: no [::-1]
SearchIdxsAscending(p, k) == PySlice(p, 0, k)

\* idxs = sims.argsort()[::-1][:k], p being what argsort returned
SearchIdxs(p, k) == PySlice(Reverse(p), 0, k)

\* idx = np.argsort(-scores)[:k], p being what argsort returned
TopKIdxs(p, k) == PySlice(p, 0, k)

\* variant: a chunk whose text equals an earlier result's text is dropped
ScoredDedup(sims, idxs) ==
    LET first(i) == \A j \in 1..(i - 1) : corpus[idxs[j]] # corpus[idxs[i]]
        kept == SelectSeq([i \in 1..Len(idxs) |-> i], first)
    IN  [m \in 1..Len(kept) |->
            [score |-> sims[idxs[kept[m]]], pos |-> idxs[kept[m]]]]

\* [(float(sims[i]), chunks[i]) for i in idxs]
Scored(sims, idxs) ==
    [i \in 1..Len(idxs) |-> [score |-> sims[idxs[i]], pos |-> idxs[i]]]

\* Retriever.search(query, k)
Search ==
    /\ retr = "built"
    /\ call.fn = "none"
    /\ \E query \in Queries, k \in KRange :
          IF corpus = << >>
          THEN /\ call' = [fn |-> "search", query |-> query, k |-> k,
                           q |-> query, sims |-> << >>, raised |-> FALSE]
               /\ out' = << >>
          ELSE LET q == EffectiveQuery(query) IN
               \E sims \in Similarities(q, corpus) :
                  /\ call' = [fn |-> "search", query |-> query, k |-> k,
                              q |-> q, sims |-> sims, raised |-> FALSE]
                  /\ IF LowSignal(sims)
                     THEN out' = FallbackResult(corpus, sims, k)
                     ELSE \E p \in Argsort(sims) :
                             out' = Scored(sims, SearchIdxs(p, k))
    /\ UNCHANGED <<corpus, retr>>
    /\ UNCHANGED notRank

\* top_k_passages(question, passages, k)
TopKPassages ==
    /\ call.fn = "none"
    /\ \E question \in Queries, k \in KRange :
          IF corpus = << >>
          THEN /\ call' = [fn |-> "top_k", query |-> question, k |-> k,
                           q |-> question, sims |-> << >>, raised |-> FALSE]
               /\ out' = << >>
          ELSE IF FitRaises(corpus)
          THEN /\ call' = [fn |-> "top_k", query |-> question, k |-> k,
                           q |-> question, sims |-> << >>, raised |-> TRUE]
               /\ out' = << >>
          ELSE \E scores \in Similarities(question, corpus) :
                  /\ call' = [fn |-> "top_k", query |-> question, k |-> k,
                              q |-> question, sims |-> scores, raised |-> FALSE]
                  /\ \E p \in Argsort(Negate(scores)) :
                        out' = Scored(scores, TopKIdxs(p, k))
    /\ UNCHANGED <<corpus, retr>>
    /\ UNCHANGED notRank

\* the caller takes the returned list (or the exception); the program is
\* single-threaded, so the next ranking call starts only after that
RankReturn ==
    /\ call.fn # "none"
    /\ call' = NoCall
    /\ out' = << >>
    /\ UNCHANGED <<corpus, retr>>
    /\ UNCHANGED notRank

ChunkIdle ==
    /\ c_fn = "none" /\ c_text = << >> /\ c_chars = 0 /\ c_overlap = 0
    /\ c_norm = << >> /\ c_i = 0 /\ c_chunks = << >> /\ c_pc = "idle"

SumIdle ==
    /\ s_fn = "none" /\ s_text = << >> /\ s_chunks = << >> /\ s_n = 0
    /\ s_out = << >> /\ s_pc = "idle"

NoResult == [kind |-> "none", detail |-> "none"]

FetchIdle ==
    /\ f_op = "none" /\ f_key = FALSE /\ f_sent = << >>
    /\ f_result = NoResult /\ f_pc = "idle"

TmdbIdle ==
    /\ t_fn = "none" /\ t_v3 = << >> /\ t_v4 = << >> /\ t_sent = << >>
    /\ t_result = NoResult /\ t_pc = "idle"

NoneText == [isNone |-> TRUE, chars |-> << >>]
NoPred == [raises |-> FALSE, proba |-> << >>, classes |-> << >>]
MoodResult(kind, label, conf) == [kind |-> kind, label |-> label, conf |-> conf]
NoMood == MoodResult("none", "", 0)

MoodIdle ==
    /\ m_env = [joblib |-> FALSE, file |-> FALSE, loads |-> FALSE] /\ m_model = "unset"
    /\ m_text = NoneText /\ m_pred = NoPred
    /\ m_result = NoMood /\ m_pc = "idle"

PickIdle ==
    /\ p_videos = << >> /\ p_result = << >> /\ p_pc = "idle"

BuildIdle ==
    /\ b_per_mood = 0 /\ b_pages = 0 /\ b_mood = 0 /\ b_page = 0 /\ b_collected = 0
    /\ b_seen = {} /\ b_rows = << >> /\ b_totals = << >> /\ b_file = << >>
    /\ b_pc = "idle"

Init ==
    /\ corpus \in Corpora
    /\ retr = "absent"
    /\ call = NoCall
    /\ out = << >>
    /\ ChunkIdle
    /\ SumIdle
    /\ FetchIdle
    /\ TmdbIdle
    /\ MoodIdle
    /\ PickIdle
    /\ BuildIdle

Next == RetrieverInit \/ Search \/ TopKPassages \/ RankReturn

Spec == Init /\ [][Next]_vars

-----------------------------------------------------------------------------
(* Properties of ranking *)

Ranked == call.fn \in {"search", "top_k"} /\ ~call.raised

OutPositions == {out[i].pos : i \in 1..Len(out)}

\* C1: Retriever.search on a non-empty corpus with k >= 0, when every
\* similarity is below the threshold, returns exactly the first
\* min(k, |corpus|) chunks in corpus order, each with score exactly 0.0.
C1_FallbackFirstK ==
    (/\ call.fn = "search" /\ corpus # << >> /\ call.k >= 0
     /\ \A i \in 1..Len(call.sims) : call.sims[i] < Threshold)
    => /\ Len(out) = Min2(call.k, Len(corpus))
       /\ \A i \in 1..Len(out) : out[i].pos = i /\ out[i].score = 0

C1_Witness ==
    /\ call.fn = "search" /\ Len(corpus) = 3 /\ call.k = 2
    /\ \A i \in 1..3 : call.sims[i] < Threshold
    /\ \E i \in 1..3 : call.sims[i] > 0
    /\ Len(out) = 2

\* C2: for k >= 0 the number of results of Retriever.search and of
\* top_k_passages never exceeds min(k, |corpus|), on either path.
C2_CountBounded ==
    (call.fn \in {"search", "top_k"} /\ call.k >= 0)
    => Len(out) <= Min2(call.k, Len(corpus))

C2_Witness ==
    /\ call.fn = "search" /\ Len(corpus) = 3 /\ call.k = 2
    /\ \E i \in 1..3 : call.sims[i] >= Threshold
    /\ Len(out) = 2

\* C3: on the score-ordered path, results with equal scores appear in
\* original corpus order (smaller corpus position first).
C3_TiesInCorpusOrder ==
    (/\ Ranked
     /\ call.fn = "search" =>
            \E i \in 1..Len(call.sims) : call.sims[i] >= Threshold)
    => \A i, j \in 1..Len(out) :
          (i < j /\ out[i].score = out[j].score) => out[i].pos < out[j].pos

\* C4: the scores returned by Retriever.search and top_k_passages are
\* non-increasing along the result.
C4_ScoresNonIncreasing ==
    call.fn \in {"search", "top_k"}
    => \A i \in 1..(Len(out) - 1) : out[i].score >= out[i + 1].score

C4_Witness ==
    /\ call.fn = "search" /\ Len(out) >= 2
    /\ out[1].score > out[2].score

\* C5: Retriever.search on a non-empty corpus with an empty or
\* whitespace-only query and k >= 0 does not raise, ranks against the
\* placeholder term "summary", and returns exactly min(k, |corpus|) results.
C5_BlankQueryRanked ==
    (/\ call.fn = "search" /\ corpus # << >> /\ call.k >= 0
     /\ \A i \in 1..Len(call.query) : call.query[i] \in Whitespace)
    => /\ ~call.raised
       /\ Len(out) = Min2(call.k, Len(corpus))
       /\ \A i \in 1..Len(corpus) :
             (call.sims[i] > 0) <=> ("summary" \in Terms(corpus[i]))

C5_Witness ==
    /\ call.fn = "search" /\ call.query = <<" ", "\t">>
    /\ Len(corpus) = 3 /\ call.k = 2 /\ Len(out) = 2
    /\ out[1].score >= Threshold
    /\ "summary" \in Terms(corpus[out[1].pos])

\* C6: with an empty corpus, Retriever([]) is constructed without error and
\* search returns the empty sequence, and top_k_passages returns the empty
\* sequence, for every query and every k.
C6_EmptyCorpusEmptyRanking ==
    corpus = << >>
    => /\ retr # "raised"
       /\ call.fn \in {"search", "top_k"} => (out = << >> /\ ~call.raised)

C6_Witness ==
    /\ corpus = << >> /\ call.fn = "search" /\ call.k = MaxK
    /\ call.query = <<"cat">> /\ out = << >>

\* C7: Retriever.search does not de-duplicate: its results refer to pairwise
\* distinct corpus positions, and with k >= |corpus| every corpus position
\* is returned, chunks with identical text included.
C7_NoDedup ==
    call.fn = "search"
    => /\ \A i, j \in 1..Len(out) : i # j => out[i].pos # out[j].pos
       /\ call.k >= Len(corpus) => OutPositions = 1..Len(corpus)

C7_Witness ==
    /\ call.fn = "search" /\ call.k >= Len(corpus)
    /\ \E i, j \in 1..Len(out) :
          /\ i # j
          /\ corpus[out[i].pos] = corpus[out[j].pos]
          /\ out[i].score >= Threshold

-----------------------------------------------------------------------------
(* chunk_text: retrieval.py and utils.py                                   *)

ChunkChars == {"a", "b", " "}

\* the text of the chunk_text("abcdefghij", 4, 1) scenario
ExampleText == <<"a", "b", "c", "d", "e", "f", "g", "h", "i", "j">>

ChunkTexts ==
    UNION {[1..n -> ChunkChars] : n \in 0..MaxLen} \cup {ExampleText}

\* re.sub(r"\s+", " ", text): the first character of every whitespace run
\* is kept, as a space; the rest of the run is dropped
CollapseWs(s) ==
    LET kept(i) == s[i] \notin Whitespace \/ i = 1 \/ s[i - 1] \notin Whitespace
        idx == SelectSeq([i \in 1..Len(s) |-> i], kept)
    IN  [k \in 1..Len(idx) |->
            IF s[idx[k]] \in Whitespace THEN " " ELSE s[idx[k]]]

\* re.sub(r"\s+", " ", text).strip()
NormalizeWs(s) == Strip(CollapseWs(s))

\* variant: i += chunk_chars - overlap
RetrievalAdvanceUnclamped(chunk_chars, overlap) == chunk_chars - overlap

\* variant: i += max(1, chunk_chars)
RetrievalAdvanceNoOverlap(chunk_chars, overlap) == Max2(1, chunk_chars)

\* `i += max(1, chunk_chars - overlap)`
RetrievalAdvance(chunk_chars, overlap) == Max2(1, chunk_chars - overlap)

\* retrieval.chunk_text, up to the loop
RetrievalChunkStart ==
    /\ c_fn = "retrieval" /\ c_pc = "start"
    /\ c_norm' = NormalizeWs(c_text)
    /\ c_i' = 0
    /\ c_chunks' = << >>
    /\ c_pc' = IF NormalizeWs(c_text) = << >> THEN "done" ELSE "loop"
    /\ UNCHANGED <<c_fn, c_text, c_chars, c_overlap>>
    /\ UNCHANGED notChunk

\* variant: chunks.append(chunk) without `if chunk:`
RetrievalEmitAlways(chunks, chunk) == Append(chunks, chunk)

\* `if chunk: chunks.append(chunk)`
RetrievalEmit(chunks, chunk) ==
    IF chunk # << >> THEN Append(chunks, chunk) ELSE chunks

\* retrieval.chunk_text, one iteration of `while i < len(text)`
RetrievalChunkLoop ==
    /\ c_fn = "retrieval" /\ c_pc = "loop"
    /\ c_i < Len(c_norm)
    /\ c_chunks' = RetrievalEmit(c_chunks,
                       Strip(PySlice(c_norm, c_i, c_i + c_chars)))
    /\ c_i' = c_i + RetrievalAdvance(c_chars, c_overlap)
    /\ UNCHANGED <<c_fn, c_text, c_chars, c_overlap, c_norm, c_pc>>
    /\ UNCHANGED notChunk

\* retrieval.chunk_text, `return chunks` once the loop test fails
RetrievalChunkReturn ==
    /\ c_fn = "retrieval" /\ c_pc = "loop"
    /\ ~(c_i < Len(c_norm))
    /\ c_pc' = "done"
    /\ UNCHANGED <<c_fn, c_text, c_chars, c_overlap, c_norm, c_i, c_chunks>>
    /\ UNCHANGED notChunk

\* variant: i = j + overlap
UtilsNextStartGap(j, overlap) == j + overlap

\* `i = max(0, j - overlap)`
UtilsNextStart(j, overlap) == Max2(0, j - overlap)

\* variant: text = text or ""
UtilsTextUnstripped(text) == text

\* `text = (text or "").strip()`
UtilsText(text) == Strip(text)

\* utils.chunk_text, up to the loop
UtilsChunkStart ==
    /\ c_fn = "utils" /\ c_pc = "start"
    /\ c_norm' = UtilsText(c_text)
    /\ c_i' = 0
    /\ c_chunks' = << >>
    /\ c_pc' = IF UtilsText(c_text) = << >> THEN "done" ELSE "loop"
    /\ UNCHANGED <<c_fn, c_text, c_chars, c_overlap>>
    /\ UNCHANGED notChunk

\* utils.chunk_text, one iteration of `while i < n`
UtilsChunkLoop ==
    /\ c_fn = "utils" /\ c_pc = "loop"
    /\ c_i < Len(c_norm)
    /\ Len(c_chunks) < MaxChunks
    /\ LET n == Len(c_norm)
           j == Min2(n, c_i + c_chars)
       IN  /\ c_chunks' = Append(c_chunks, PySlice(c_norm, c_i, j))
           /\ IF j = n
              THEN c_pc' = "done" /\ c_i' = c_i
              ELSE c_pc' = "loop" /\ c_i' = UtilsNextStart(j, c_overlap)
    /\ UNCHANGED <<c_fn, c_text, c_chars, c_overlap, c_norm>>
    /\ UNCHANGED notChunk

\* utils.chunk_text, `return chunks` once the loop test fails
UtilsChunkReturn ==
    /\ c_fn = "utils" /\ c_pc = "loop"
    /\ ~(c_i < Len(c_norm))
    /\ c_pc' = "done"
    /\ UNCHANGED <<c_fn, c_text, c_chars, c_overlap, c_norm, c_i, c_chunks>>
    /\ UNCHANGED notChunk

RankIdle ==
    /\ corpus = << >> /\ retr = "absent" /\ call = NoCall /\ out = << >>

InitChunk ==
    /\ c_fn \in {"retrieval", "utils"}
    /\ c_text \in ChunkTexts
    /\ c_chars \in (0 - 1)..MaxChunkChars
    /\ c_overlap \in (0 - 1)..MaxOverlap
    /\ c_norm = << >>
    /\ c_i = 0
    /\ c_chunks = << >>
    /\ c_pc = "start"
    /\ RankIdle
    /\ SumIdle
    /\ FetchIdle
    /\ TmdbIdle
    /\ MoodIdle
    /\ PickIdle
    /\ BuildIdle

NextChunk ==
    \/ RetrievalChunkStart \/ RetrievalChunkLoop \/ RetrievalChunkReturn
    \/ UtilsChunkStart \/ UtilsChunkLoop \/ UtilsChunkReturn

SpecChunk == InitChunk /\ [][NextChunk]_vars

\* the interpreter keeps executing the function it is in
FairChunk == SpecChunk /\ WF_vars(NextChunk)

-----------------------------------------------------------------------------
(* Properties of chunk_text *)

ValidWindow == 0 <= c_overlap /\ c_overlap < c_chars

\* the trimmed window of the normalised text that starts at 0-based offset
\* `start`
TrimmedWindow(start) ==
    Strip(SubSeq(c_norm, start + 1, Min2(start + c_chars, Len(c_norm))))

\* the trimmed windows at offsets 0, step, 2*step, ... below the text length
AllWindows ==
    LET step  == c_chars - c_overlap
        count == (Len(c_norm) + step - 1) \div step
    IN  [m \in 1..count |-> TrimmedWindow((m - 1) * step)]

NonEmpty(w) == w # << >>

\* C8 as claimed: for valid 0 <= overlap < chunk_chars, retrieval.chunk_text
\* emits the trimmed window of every offset 0, step, 2*step, ... below the
\* text length, in source order.
C8_EveryWindowEmitted ==
    (c_fn = "retrieval" /\ c_pc = "done" /\ ValidWindow)
    => c_chunks = AllWindows

\* C8 amended: for valid 0 <= overlap < chunk_chars, retrieval.chunk_text
\* emits, in source order, the trimmed windows at offsets 0, step, 2*step,
\* ... below the text length, leaving out those that are empty after
\* trimming; each emitted window has at most chunk_chars characters.
C8_NonEmptyWindowsEmitted ==
    (c_fn = "retrieval" /\ c_pc = "done" /\ ValidWindow)
    => /\ c_chunks = SelectSeq(AllWindows, NonEmpty)
       /\ \A m \in 1..Len(c_chunks) : Len(c_chunks[m]) <= c_chars

C8_Witness ==
    /\ c_fn = "retrieval" /\ c_pc = "done"
    /\ c_text = ExampleText /\ c_chars = 4 /\ c_overlap = 1
    /\ c_chunks = << <<"a", "b", "c", "d">>, <<"d", "e", "f", "g">>,
                     <<"g", "h", "i", "j">>, <<"j">> >>

\* C9: retrieval.chunk_text terminates for every text and every integer
\* chunk_chars and overlap, overlap >= chunk_chars included: every loop
\* iteration advances the window start by at least 1, and the function
\* returns.
C9_RetrievalChunkTerminates ==
    /\ [][RetrievalChunkLoop => c_i' >= c_i + 1]_vars
    /\ <>(c_fn = "retrieval" => c_pc = "done")

C9_Witness ==
    /\ c_fn = "retrieval" /\ c_pc = "done"
    /\ c_overlap >= c_chars /\ c_i >= Len(c_norm) /\ Len(c_chunks) >= 3

\* C10: utils.chunk_text terminates for every text and every integer
\* chunk_chars and overlap: the window start strictly increases on every
\* loop iteration that does not end the loop.
C10_UtilsChunkAdvances ==
    [][(UtilsChunkLoop /\ c_pc' = "loop") => c_i' > c_i]_vars

\* C11: chunk_text called on non-empty text with a zero or negative chunk
\* size fails with an error; it never returns a chunk list (both
\* retrieval.chunk_text and utils.chunk_text).
C11_BadChunkSizeNeverReturns ==
    (c_chars <= 0 /\ \E i \in 1..Len(c_text) : c_text[i] \notin Whitespace)
    => c_pc # "done"

\* C12: for valid 0 <= overlap < chunk_chars, every chunk emitted by
\* retrieval.chunk_text and utils.chunk_text is non-empty and has at most
\* chunk_chars characters.
C12_ChunksNonEmptyBounded ==
    (c_fn \in {"retrieval", "utils"} /\ ValidWindow)
    => \A m \in 1..Len(c_chunks) :
          c_chunks[m] # << >> /\ Len(c_chunks[m]) <= c_chars

C12_Witness ==
    /\ c_fn = "retrieval" /\ c_pc = "done" /\ c_chars = 1 /\ c_overlap = 0
    /\ c_norm = <<"a", " ", "b">>
    /\ c_chunks = << <<"a">>, <<"b">> >>

\* C13: chunk_text on empty or whitespace-only text returns the empty
\* sequence without entering the loop, for every chunk_chars and overlap
\* (both retrieval.chunk_text and utils.chunk_text).
C13_BlankTextNoChunks ==
    (/\ c_fn \in {"retrieval", "utils"} /\ c_pc # "start"
     /\ \A i \in 1..Len(c_text) : c_text[i] \in Whitespace)
    => c_pc = "done" /\ c_chunks = << >>

C13_Witness ==
    /\ c_fn = "utils" /\ c_pc = "done" /\ c_text = <<" ", " ">>
    /\ c_chars = 0 - 1 /\ c_overlap = MaxOverlap /\ c_chunks = << >>


\* 0 <= overlap < chunk_chars
ValidChunkParams == 0 <= c_overlap /\ c_overlap < c_chars

\* C25: for valid parameters the windows lose no text: the first window
\* starts at 0, each next window starts at or before the end of the previous
\* one, and when chunk_text returns the windows have reached the end of the
\* (normalized / stripped) text.
C25_WindowsCoverText ==
    [][ValidChunkParams =>
          /\ c_pc = "start" => c_i' = 0
          /\ c_pc = "loop" => c_i' <= c_i + c_chars
          /\ (c_pc = "loop" /\ c_pc' = "done") =>
                IF c_fn = "utils"
                THEN c_i + c_chars >= Len(c_norm)
                ELSE c_i' >= Len(c_norm)]_vars

C25_Witness ==
    /\ c_pc = "done" /\ ValidChunkParams /\ c_overlap >= 1
    /\ Len(c_norm) > c_chars /\ Len(c_chunks) >= 2

-----------------------------------------------------------------------------
(* Summarizers: make_bullets (app.py), bullet_summary (retrieval.py),      *)
(* extractive_bullets (utils.py)                                           *)

MaxSents     == 2   \* sentences per generated flat text
MaxSumChunks == 2   \* chunks handed to extractive_bullets
MaxN         == 3   \* largest n / bullets

MakeBulletsMinLen  == 35    \* `len(s.strip()) >= 35`
FallbackChars      == 180   \* `text[:180]`
BulletSummaryFloor == 30    \* `len(s) > 30`
ExtractMinLen      == 40    \* `len(s) < 40`
PrefixKeyLen       == 120   \* `s[:120]`

Punct == {".", "!", "?"}

\* the one-character truncation marker U+2026
Ellipsis == "..."

Rep(ch, n) == [i \in 1..n |-> ch]

\* a sentence of n characters: n - 1 times ch, then the mark
Sent(ch, n, mark) == Rep(ch, n - 1) \o <<mark>>

\* str.lower(), on the letters the inputs use
Lower(ch) == IF ch = "A" THEN "a" ELSE IF ch = "B" THEN "b" ELSE ch

LowerStr(str) == [i \in 1..Len(str) |-> Lower(str[i])]

\* the elements of a finite set of integers, ascending
SortedSeq(S) ==
    [k \in 1..Cardinality(S) |->
        CHOOSE x \in S : Cardinality({y \in S : y < x}) = k - 1]

\* where r"(?<=[.!?])\s+" matches: a whitespace run that directly follows
\* a '.', '!' or '?'
CutStarts(t) ==
    {a \in 2..Len(t) : t[a] \in Whitespace /\ t[a - 1] \in Punct}

RunEnd(t, a) ==
    SetMax({b \in a..Len(t) : \A j \in a..b : t[j] \in Whitespace})

\* re.split(r"(?<=[.!?])\s+", t)
SplitSentences(t) ==
    LET cuts    == CutStarts(t)
        starts  == SortedSeq({1} \cup {RunEnd(t, a) + 1 : a \in cuts})
        stop(p) == IF \E a \in cuts : a >= p
                   THEN SetMin({a \in cuts : a >= p}) - 1
                   ELSE Len(t)
    IN  [k \in 1..Len(starts) |->
            IF stop(starts[k]) < starts[k] THEN << >>
            ELSE SubSeq(t, starts[k], stop(starts[k]))]

StripAll(pieces) == [k \in 1..Len(pieces) |-> Strip(pieces[k])]

InSeq(x, sq) == \E k \in 1..Len(sq) : sq[k] = x

\* --- make_bullets ---------------------------------------------------------

\* `[s.strip() for s in sents if len(s.strip()) >= 35]`
LongEnoughForMakeBullets(str) == Len(str) >= MakeBulletsMinLen

\* variant: the fallback cuts the text without adding the marker
MakeBulletsFallbackNoMarker(text) == <<Strip(PySlice(text, 0, FallbackChars))>>

\* `[text[:180].strip() + ("…" if len(text) > 180 else "")]`
MakeBulletsFallback(text) ==
    <<Strip(PySlice(text, 0, FallbackChars))
        \o (IF Len(text) > FallbackChars THEN <<Ellipsis>> ELSE << >>)>>

\* the `for s in sents` loop of make_bullets, from sentence i on
RECURSIVE MakeBulletsLoop(_, _, _, _)
MakeBulletsLoop(sents, i, acc, n) ==
    IF i > Len(sents) \/ Len(acc) >= n THEN acc
    ELSE MakeBulletsLoop(sents, i + 1,
            IF InSeq(sents[i], acc) THEN acc ELSE Append(acc, sents[i]), n)

\* make_bullets(text, n)
MakeBulletsResult(text, n) ==
    IF Strip(text) = << >> THEN << >>
    ELSE LET norm  == CollapseWs(Strip(text))
             sents == SelectSeq(StripAll(SplitSentences(norm)),
                                LongEnoughForMakeBullets)
         IN  IF sents = << >> THEN MakeBulletsFallback(norm)
             ELSE PySlice(MakeBulletsLoop(sents, 1, << >>, n), 0, n)

\* --- bullet_summary -------------------------------------------------------

\* variant: bullets.insert(0, s)
BulletSummaryKeepFront(acc, str) ==
    IF str # << >> /\ Len(str) > BulletSummaryFloor
    THEN <<str>> \o acc ELSE acc

\* `if s and len(s) > 30: bullets.append(s)`
BulletSummaryKeep(acc, str) ==
    IF str # << >> /\ Len(str) > BulletSummaryFloor
    THEN Append(acc, str) ELSE acc

\* the `for s in sents` loop of bullet_summary, from sentence i on
RECURSIVE BulletSummaryLoop(_, _, _, _)
BulletSummaryLoop(sents, i, acc, n) ==
    IF i > Len(sents) THEN acc
    ELSE LET next == BulletSummaryKeep(acc, Strip(sents[i]))
         IN  IF Len(next) >= n THEN next
             ELSE BulletSummaryLoop(sents, i + 1, next, n)

\* bullet_summary(text, n)
BulletSummaryResult(text, n) ==
    IF text = << >> THEN << >>
    ELSE BulletSummaryLoop(SplitSentences(Strip(text)), 1, << >>, n)

\* --- extractive_bullets ---------------------------------------------------

\* variant: the key is the whole sentence as written
PrefixKeyExact(str) == str

\* `key = s[:120].lower()`
PrefixKey(str) == LowerStr(PySlice(str, 0, PrefixKeyLen))

\* variant: `if len(s) <= 40: continue`
TooShortForExtractStrict(str) == Len(str) <= ExtractMinLen

\* `if len(s) < 40: continue`
TooShortForExtract(str) == Len(str) < ExtractMinLen

\* the loops of extractive_bullets from sentence si of chunk ci on; acc is
\* [out, seen]
RECURSIVE ExtractiveLoop(_, _, _, _, _)
ExtractiveLoop(chunks, ci, si, acc, n) ==
    IF ci > Len(chunks) THEN acc.out
    ELSE LET sentences == SplitSentences(chunks[ci]) IN
         IF si > Len(sentences)
         THEN ExtractiveLoop(chunks, ci + 1, 1, acc, n)
         ELSE LET str == Strip(sentences[si])
                  key == PrefixKey(str)
              IN  IF TooShortForExtract(str) \/ key \in acc.seen
                  THEN ExtractiveLoop(chunks, ci, si + 1, acc, n)
                  ELSE LET grown == [out  |-> Append(acc.out, str),
                                     seen |-> acc.seen \cup {key}]
                       IN  IF Len(grown.out) >= n THEN grown.out
                           ELSE ExtractiveLoop(chunks, ci, si + 1, grown, n)

\* extractive_bullets(chunks, bullets)
ExtractiveBulletsResult(chunks, n) ==
    ExtractiveLoop(chunks, 1, 1, [out |-> << >>, seen |-> {}], n)

\* --- inputs ---------------------------------------------------------------

F30  == Sent("a", 30, ".")          \* under every floor
F31  == Sent("a", 31, "!")          \* over bullet_summary's floor only
F35  == Sent("b", 35, "?")          \* at make_bullets' floor
S40  == Sent("a", 40, ".")          \* at extractive_bullets' floor
S40U == Sent("A", 40, ".")          \* S40 in capitals
D40  == <<"b", "b", " ", "\t">> \o Sent("b", 36, ".")   \* inner whitespace run
L121 == Rep("a", 120) \o <<".">>    \* 120 shared characters, then '.'
L122 == Rep("a", 120) \o <<"b", ".">>   \* the same 120 characters, then 'b.'

SentenceBlocks == {F30, F31, F35, S40, S40U, D40, L121, L122}

Separators == {<<" ">>, <<"\t", " ">>}

RECURSIVE Join(_, _)
Join(blocks, sep) ==
    IF blocks = << >> THEN << >>
    ELSE IF Len(blocks) = 1 THEN blocks[1]
    ELSE blocks[1] \o sep \o Join(Tail(blocks), sep)

\* seven fragments under every floor: 216 characters, over the fallback cut
LongFragments == Join([k \in 1..7 |-> F30], <<" ">>)

\* seven fragments of 29 characters: character 180 is a space
LongFragmentsCut == Join([k \in 1..7 |-> Sent("a", 29, ".")], <<" ">>)

FlatTexts ==
    {Join(b, sep) : b \in UNION {[1..m -> SentenceBlocks] : m \in 0..MaxSents},
                    sep \in Separators}
    \cup {<<" ">> \o Join(<<F31, S40>>, <<" ">>) \o <<" ">>,
          <<" ", "\t">>, LongFragments, LongFragmentsCut}

ExtractTexts ==
    {S40, S40U, F35, << >>,
     Join(<<S40, L121>>, <<" ">>) \o <<" ">>,
     Join(<<L122, S40U, D40>>, <<"\t", " ">>)}

ExtractInputs == UNION {[1..m -> ExtractTexts] : m \in 0..MaxSumChunks}

\* --- operations -----------------------------------------------------------

MakeBullets ==
    /\ s_fn = "make_bullets" /\ s_pc = "start"
    /\ s_out' = MakeBulletsResult(s_text, s_n)
    /\ s_pc' = "done"
    /\ UNCHANGED <<s_fn, s_text, s_chunks, s_n>>
    /\ UNCHANGED notSum

BulletSummary ==
    /\ s_fn = "bullet_summary" /\ s_pc = "start"
    /\ s_out' = BulletSummaryResult(s_text, s_n)
    /\ s_pc' = "done"
    /\ UNCHANGED <<s_fn, s_text, s_chunks, s_n>>
    /\ UNCHANGED notSum

ExtractiveBullets ==
    /\ s_fn = "extractive_bullets" /\ s_pc = "start"
    /\ s_out' = ExtractiveBulletsResult(s_chunks, s_n)
    /\ s_pc' = "done"
    /\ UNCHANGED <<s_fn, s_text, s_chunks, s_n>>
    /\ UNCHANGED notSum

InitSum ==
    /\ \/ /\ s_fn \in {"make_bullets", "bullet_summary"}
          /\ s_text \in FlatTexts
          /\ s_chunks = << >>
       \/ /\ s_fn = "extractive_bullets"
          /\ s_text = << >>
          /\ s_chunks \in ExtractInputs
    /\ s_n \in 0..MaxN
    /\ s_out = << >>
    /\ s_pc = "start"
    /\ RankIdle
    /\ ChunkIdle
    /\ FetchIdle
    /\ TmdbIdle
    /\ MoodIdle
    /\ PickIdle
    /\ BuildIdle

NextSum == MakeBullets \/ BulletSummary \/ ExtractiveBullets

SpecSum == InitSum /\ [][NextSum]_vars

-----------------------------------------------------------------------------
(* Properties of the summarizers *)

SumDone == s_pc = "done"

FlatFn == s_fn \in {"make_bullets", "bullet_summary"}

\* a is a subsequence of b: a[i..] can be matched in order inside b[j..]
RECURSIVE IsSubseqFrom(_, _, _, _)
IsSubseqFrom(a, i, b, j) ==
    IF i > Len(a) THEN TRUE
    ELSE IF j > Len(b) THEN FALSE
    ELSE IF a[i] = b[j] THEN IsSubseqFrom(a, i + 1, b, j + 1)
    ELSE IsSubseqFrom(a, i, b, j + 1)

IsSubseq(a, b) == IsSubseqFrom(a, 1, b, 1)

\* the trimmed sentences of a text, split at '.', '!' or '?' followed by
\* whitespace
TrimmedSentences(t) == StripAll(SplitSentences(t))

\* the lowercased leading substring of a sentence
LoweredPrefix(str) ==
    [i \in 1..Min2(Len(str), PrefixKeyLen) |-> Lower(str[i])]

NoPrefixDuplicates(res) ==
    \A i, j \in 1..Len(res) :
        i # j => LoweredPrefix(res[i]) # LoweredPrefix(res[j])

\* C14: for every input and every n >= 0, n = 0 included, make_bullets,
\* bullet_summary and extractive_bullets return at most n items.
C14_AtMostN == SumDone => Len(s_out) <= s_n

\* C15 as claimed: every item returned by make_bullets, bullet_summary and
\* extractive_bullets on a single chunk is a sentence of the split of the
\* input, in input order.
C15_SubsequenceOfInputSentences ==
    (SumDone /\ (FlatFn \/ Len(s_chunks) = 1))
    => IsSubseq(s_out, TrimmedSentences(IF FlatFn THEN s_text
                                        ELSE s_chunks[1]))

MakeBulletsHasSentence ==
    \E k \in 1..Len(TrimmedSentences(NormalizeWs(s_text))) :
        Len(TrimmedSentences(NormalizeWs(s_text))[k]) >= MakeBulletsMinLen

\* C15 amended: the items returned by bullet_summary and by
\* extractive_bullets on a single chunk are trimmed sentences of the split
\* of the input, in input order; those of make_bullets are sentences of the
\* split of the whitespace-normalized input, in order, whenever one of them
\* has at least 35 characters, and otherwise make_bullets returns at most
\* its one fallback item.
C15_SubsequenceOfSentences ==
    SumDone =>
       /\ s_fn = "bullet_summary"
            => IsSubseq(s_out, TrimmedSentences(s_text))
       /\ (s_fn = "extractive_bullets" /\ Len(s_chunks) = 1)
            => IsSubseq(s_out, TrimmedSentences(s_chunks[1]))
       /\ s_fn = "make_bullets"
            => IF MakeBulletsHasSentence
               THEN IsSubseq(s_out, TrimmedSentences(NormalizeWs(s_text)))
               ELSE Len(s_out) <= 1

C15_Witness ==
    /\ SumDone /\ s_fn = "bullet_summary" /\ s_n = 2
    /\ s_text = <<" ">> \o Join(<<F31, S40>>, <<" ">>) \o <<" ">>
    /\ s_out = <<F31, S40>>

\* C16: extractive_bullets never returns two sentences whose lowercased
\* first 120 characters are equal, also when they come from different
\* chunks.
C16_ExtractiveNoPrefixDuplicates ==
    (SumDone /\ s_fn = "extractive_bullets") => NoPrefixDuplicates(s_out)

C16_Witness ==
    /\ SumDone /\ s_fn = "extractive_bullets" /\ s_n = 3
    /\ s_chunks = <<Join(<<S40, L121>>, <<" ">>) \o <<" ">>,
                    Join(<<L122, S40U, D40>>, <<"\t", " ">>)>>
    /\ s_out = <<S40, L121, D40>>

\* C17: make_bullets and bullet_summary never return two items whose
\* lowercased leading substrings are equal.
C17_FlatNoPrefixDuplicates ==
    (SumDone /\ FlatFn) => NoPrefixDuplicates(s_out)

\* every trimmed sentence of every chunk, in chunk order
RECURSIVE SentencesOfChunks(_)
SentencesOfChunks(chunks) ==
    IF chunks = << >> THEN << >>
    ELSE TrimmedSentences(Head(chunks)) \o SentencesOfChunks(Tail(chunks))

\* the qualifying sentences: at least 40 characters, and no earlier
\* sentence of at least 40 characters has the same lowercased prefix
QualifyingSentences(chunks) ==
    LET all == SentencesOfChunks(chunks)
        qualifies(k) ==
            /\ Len(all[k]) >= ExtractMinLen
            /\ \A j \in 1..(k - 1) :
                  Len(all[j]) >= ExtractMinLen
                  => LoweredPrefix(all[j]) # LoweredPrefix(all[k])
        idx == SelectSeq([k \in 1..Len(all) |-> k], qualifies)
    IN  [m \in 1..Len(idx) |-> all[idx[m]]]

\* C18: extractive_bullets with n >= 1 returns exactly the first n
\* qualifying sentences, in chunk order and sentence order, and fewer than
\* n only when fewer exist.
C18_FirstNQualifying ==
    (SumDone /\ s_fn = "extractive_bullets" /\ s_n >= 1)
    => LET q == QualifyingSentences(s_chunks)
       IN  s_out = SubSeq(q, 1, Min2(s_n, Len(q)))

C18_Witness ==
    /\ SumDone /\ s_fn = "extractive_bullets" /\ s_n = 2
    /\ s_chunks = <<F35, Join(<<L122, S40U, D40>>, <<"\t", " ">>)>>
    /\ s_out = <<L122, S40U>>

\* C19: make_bullets on non-empty text without a sentence of at least 35
\* characters returns exactly one item: the whitespace-normalized text when
\* it has at most 180 characters, otherwise its first 180 characters,
\* trimmed, followed by the truncation marker.
C19_MakeBulletsFallback ==
    (/\ SumDone /\ s_fn = "make_bullets"
     /\ \E i \in 1..Len(s_text) : s_text[i] \notin Whitespace
     /\ ~MakeBulletsHasSentence)
    => LET norm == NormalizeWs(s_text)
       IN  s_out = IF Len(norm) <= FallbackChars THEN <<norm>>
                   ELSE <<Strip(SubSeq(norm, 1, FallbackChars))
                            \o <<Ellipsis>>>>

C19_Witness ==
    /\ SumDone /\ s_fn = "make_bullets" /\ s_n = 2
    /\ s_text = LongFragmentsCut
    /\ Len(s_out) = 1 /\ Len(s_out[1]) = FallbackChars
    /\ s_out[1][FallbackChars] = Ellipsis

-----------------------------------------------------------------------------
(* Source fetchers: src/utils.py, src/web.py, src/fetchers.py.              *)
(* Each fetcher is one synchronous call; the network's answer to a request *)
(* is its input.                                                            *)

\* what the response body holds of the content the fetcher looks for
\* (the work record's "description", the page's .mw-parser-output)
Contents == {"none", "text", "dict"}

Statuses == {200, 404, 500}

\* what requests.get / session.get can come back with
Responses ==
    {[kind |-> k, status |-> 0, content |-> "none"] : k \in {"Timeout", "ConnectionError"}}
    \cup {[kind |-> "response", status |-> st, content |-> c] : st \in Statuses, c \in Contents}

\* Response.ok: raise_for_status() would not raise
Ok(resp) == resp.kind = "response" /\ resp.status < 400

\* the request did not produce a 2xx response
HttpFailure(resp) == ~Ok(resp)

\* the exception of `r = requests.get(...)` followed by `r.raise_for_status()`
ErrorOf(resp) == IF resp.kind = "response" THEN "HTTPError" ELSE resp.kind

Raised(err) == [kind |-> "raised", detail |-> err]
Returned(from) == [kind |-> "returned", detail |-> from]

\* `r = requests.get(...); r.raise_for_status(); return <built from r>`
GetAndRaiseForStatus(resp) ==
    IF Ok(resp) THEN Returned("response") ELSE Raised(ErrorOf(resp))

\* the shape shared by the fetchers that issue one request and check it
StrictFetch(op) ==
    /\ f_pc = "called" /\ f_op = op
    /\ \E resp \in Responses :
          /\ f_sent' = Append(f_sent, resp)
          /\ f_result' = GetAndRaiseForStatus(resp)
    /\ f_pc' = "done"
    /\ UNCHANGED <<f_op, f_key, notFetch>>

UtilsGet == StrictFetch("utils._get")
UtilsFetchUrlText == StrictFetch("utils.fetch_url_text")
WikiSearchHtml == StrictFetch("utils.wiki_search_html")
UtilsOpenlibrarySearch == StrictFetch("utils.openlibrary_search")
WebWikiSearch == StrictFetch("web.wiki_search")
WikiFetchSummary == StrictFetch("web.wiki_fetch_summary")
WebOpenlibrarySearch == StrictFetch("web.openlibrary_search")
WebFetchUrlText == StrictFetch("web.fetch_url_text")
FetchersWikiSearch == StrictFetch("fetchers.wiki_search")
FetchersOpenlibrarySearch == StrictFetch("fetchers.openlibrary_search")
UrlFetch == StrictFetch("fetchers.url_fetch")

\* fetchers.wiki_fetch: a checked request, then RuntimeError when the page
\* has no .mw-parser-output
WikiFetch ==
    /\ f_pc = "called" /\ f_op = "fetchers.wiki_fetch"
    /\ \E resp \in Responses :
          /\ f_sent' = Append(f_sent, resp)
          /\ f_result' = IF ~Ok(resp) THEN Raised(ErrorOf(resp))
                         ELSE IF resp.content = "none" THEN Raised("RuntimeError")
                         ELSE Returned("response")
    /\ f_pc' = "done"
    /\ UNCHANGED <<f_op, f_key, notFetch>>

\* fetchers.openlibrary_fetch: RuntimeError without a key, else a checked
\* request; summary = description or the doc's first_sentence
OpenlibraryFetch ==
    /\ f_pc = "called" /\ f_op = "fetchers.openlibrary_fetch"
    /\ \/ /\ ~f_key
          /\ f_sent' = f_sent
          /\ f_result' = Raised("RuntimeError")
       \/ /\ f_key
          /\ \E resp \in Responses :
                /\ f_sent' = Append(f_sent, resp)
                /\ f_result' = GetAndRaiseForStatus(resp)
    /\ f_pc' = "done"
    /\ UNCHANGED <<f_op, f_key, notFetch>>

\* web.openlibrary_fetch_book's `desc`: "" unless the work record was
\* fetched, was ok and carries a description
\* (`try: w = requests.get(...); if w.ok: ... except Exception: pass`)
WorkDescription(resp) ==
    IF Ok(resp) /\ resp.content # "none" THEN "response" ELSE "doc"

\* web.openlibrary_fetch_book: the text is the work record's description,
\* or else "<title>. Author: <author>." built from the doc; always returns
OpenlibraryFetchBook ==
    /\ f_pc = "called" /\ f_op = "web.openlibrary_fetch_book"
    /\ \/ /\ ~f_key
          /\ f_sent' = f_sent
          /\ f_result' = Returned("doc")
       \/ /\ f_key
          /\ \E resp \in Responses :
                /\ f_sent' = Append(f_sent, resp)
                /\ f_result' = Returned(WorkDescription(resp))
    /\ f_pc' = "done"
    /\ UNCHANGED <<f_op, f_key, notFetch>>

DocFetchers == {"fetchers.openlibrary_fetch", "web.openlibrary_fetch_book"}

FetcherOps ==
    {"utils._get", "utils.fetch_url_text", "utils.wiki_search_html",
     "utils.openlibrary_search", "web.wiki_search", "web.wiki_fetch_summary",
     "web.openlibrary_search", "web.fetch_url_text", "fetchers.wiki_search",
     "fetchers.openlibrary_search", "fetchers.url_fetch",
     "fetchers.wiki_fetch"} \cup DocFetchers

InitFetch ==
    /\ f_op \in FetcherOps
    /\ f_key \in (IF f_op \in DocFetchers THEN BOOLEAN ELSE {FALSE})
    /\ f_sent = << >>
    /\ f_result = NoResult
    /\ f_pc = "called"
    /\ RankIdle
    /\ ChunkIdle
    /\ SumIdle
    /\ TmdbIdle
    /\ MoodIdle
    /\ PickIdle
    /\ BuildIdle

NextFetch ==
    \/ UtilsGet
    \/ UtilsFetchUrlText
    \/ WikiSearchHtml
    \/ UtilsOpenlibrarySearch
    \/ WebWikiSearch
    \/ WikiFetchSummary
    \/ WebOpenlibrarySearch
    \/ WebFetchUrlText
    \/ FetchersWikiSearch
    \/ FetchersOpenlibrarySearch
    \/ UrlFetch
    \/ WikiFetch
    \/ OpenlibraryFetch
    \/ OpenlibraryFetchBook

SpecFetch == InitFetch /\ [][NextFetch]_vars

-----------------------------------------------------------------------------
(* Fetcher properties *)

\* C20: a fetcher whose HTTP request timed out, failed in transport or came
\* back non-2xx ends by raising to its caller, and issued that request once
\* (nothing was sent after the failure).
C20_HttpFailureRaisesNoRetry ==
    f_pc = "done" =>
        \A i \in 1..Len(f_sent) :
            HttpFailure(f_sent[i]) =>
                /\ f_result.kind = "raised"
                /\ Len(f_sent) = 1

-----------------------------------------------------------------------------
(* TMDB client: tmdb_get of src/app.py and of src/ml/build_mood_dataset.py *)

\* a credential as the call sees it: unset (""), blank, or a key
Credentials == {<< >>, <<" ">>, <<"k">>}

\* the outcome of one tmdb_get call: the requests it issued and how it ended
TmdbOutcome(sent, result) == [sent |-> sent, result |-> result]

\* a tmdb_get that would send the request before looking at the credentials
TmdbGetRequestFirst(v3, v4, resp) ==
    IF v4 = << >> /\ v3 = << >>
    THEN TmdbOutcome(<<resp>>, Raised("RuntimeError"))
    ELSE TmdbOutcome(<<resp>>, GetAndRaiseForStatus(resp))

\* if not v4_token: if not v3_key: raise RuntimeError(...)
\* r = requests.get(...); r.raise_for_status(); return r.json()
TmdbGet(v3, v4, resp) ==
    IF v4 = << >> /\ v3 = << >>
    THEN TmdbOutcome(<< >>, Raised("RuntimeError"))
    ELSE TmdbOutcome(<<resp>>, GetAndRaiseForStatus(resp))

TmdbCall(fn) ==
    /\ t_pc = "called" /\ t_fn = fn
    /\ \E resp \in Responses :
          /\ t_sent' = TmdbGet(t_v3, t_v4, resp).sent
          /\ t_result' = TmdbGet(t_v3, t_v4, resp).result
    /\ t_pc' = "done"
    /\ UNCHANGED <<t_fn, t_v3, t_v4, notTmdb>>

\* app.tmdb_get: the credentials are the module globals
AppTmdbGet == TmdbCall("app")

\* build_mood_dataset.tmdb_get: the credentials are arguments
MlTmdbGet == TmdbCall("ml")

InitTmdb ==
    /\ t_fn \in {"app", "ml"}
    /\ t_v3 \in Credentials
    /\ t_v4 \in Credentials
    /\ t_sent = << >>
    /\ t_result = NoResult
    /\ t_pc = "called"
    /\ RankIdle
    /\ ChunkIdle
    /\ SumIdle
    /\ FetchIdle
    /\ MoodIdle
    /\ PickIdle
    /\ BuildIdle

NextTmdb ==
    \/ AppTmdbGet
    \/ MlTmdbGet

SpecTmdb == InitTmdb /\ [][NextTmdb]_vars

-----------------------------------------------------------------------------
(* TMDB client properties *)

\* C21: with neither the v4 token nor the v3 key configured, tmdb_get ends
\* with a RuntimeError and has issued no HTTP request, in both clients.
C21_MissingCredsRaisesBeforeRequest ==
    (t_pc = "done" /\ t_v3 = << >> /\ t_v4 = << >>) =>
        /\ t_result = Raised("RuntimeError")
        /\ t_sent = << >>

C21_Witness ==
    /\ t_pc = "done" /\ t_fn = "ml" /\ t_v3 = << >> /\ t_v4 = << >>
    /\ t_result.kind = "raised"

-----------------------------------------------------------------------------
(* Mood model: load_mood_model and predict_mood_from_text of src/app.py *)

\* load_mood_model(): None unless joblib imported, the artifact exists and
\* joblib.load(p) does not raise
LoadMoodModel(env) ==
    IF ~env.joblib \/ ~env.file THEN "None"
    ELSE IF env.loads THEN "model" ELSE "None"

\* MOOD_MODEL = load_mood_model(), at import
LoadModel ==
    /\ m_pc = "import"
    /\ m_model' = LoadMoodModel(m_env)
    /\ m_pc' = "loaded"
    /\ UNCHANGED <<m_env, m_text, m_pred, m_result, notMood>>

ReturnedNone == MoodResult("returned_none", "", 0)
\* proba.argmax(): the first index of the largest entry (1-based here)
ArgMax(p) == SetMin({i \in 1..Len(p) : \A j \in 1..Len(p) : p[j] <= p[i]})

\* the body of the try: raises when predict_proba raises, when proba is
\* empty (argmax of nothing) or when classes_ has no entry idx
TryRaises(pred) ==
    \/ pred.raises
    \/ pred.proba = << >>
    \/ ArgMax(pred.proba) > Len(pred.classes)

\* label = MOOD_MODEL.classes_[idx]; conf = float(proba[idx])
TryValue(pred) ==
    MoodResult("returned_pair", pred.classes[ArgMax(pred.proba)],
               pred.proba[ArgMax(pred.proba)])

\* (text or "").strip()
TextOrEmpty(text) == IF text.isNone THEN << >> ELSE Strip(text.chars)

\* predict_mood_from_text without its `except Exception: return None`
PredictMoodUnguarded(model, text, pred) ==
    IF model = "None" THEN ReturnedNone
    ELSE IF TextOrEmpty(text) = << >> THEN ReturnedNone
    ELSE IF TryRaises(pred) THEN MoodResult("raised", "", 0)
    ELSE TryValue(pred)

\* predict_mood_from_text
PredictMood(model, text, pred) ==
    IF model = "None" THEN ReturnedNone
    ELSE IF TextOrEmpty(text) = << >> THEN ReturnedNone
    ELSE IF TryRaises(pred) THEN ReturnedNone
    ELSE TryValue(pred)

MoodTexts ==
    {NoneText} \cup {[isNone |-> FALSE, chars |-> c] :
                        c \in {<< >>, <<" ">>, <<"a">>, <<" ", "a", "\t">>}}

\* class probabilities on an integer scale
Predictions ==
    [raises : BOOLEAN,
     proba : {<< >>, <<1, 2>>, <<2, 1>>, <<2, 2>>},
     classes : {<<"feel_good">>, <<"feel_good", "spooky">>}]

PredictMoodFromText ==
    /\ m_pc = "loaded"
    /\ \E text \in MoodTexts, pred \in Predictions :
          /\ m_text' = text
          /\ m_pred' = pred
          /\ m_result' = PredictMood(m_model, text, pred)
    /\ m_pc' = "done"
    /\ UNCHANGED <<m_env, m_model, notMood>>

InitMood ==
    /\ m_env \in [joblib : BOOLEAN, file : BOOLEAN, loads : BOOLEAN]
    /\ m_model = "unset"
    /\ m_text = NoneText
    /\ m_pred = NoPred
    /\ m_result = NoMood
    /\ m_pc = "import"
    /\ RankIdle
    /\ ChunkIdle
    /\ SumIdle
    /\ FetchIdle
    /\ TmdbIdle
    /\ PickIdle
    /\ BuildIdle

NextMood ==
    \/ LoadModel
    \/ PredictMoodFromText

SpecMood == InitMood /\ [][NextMood]_vars

-----------------------------------------------------------------------------
(* Mood model properties *)

\* a trained model is loaded: joblib imported, artifact present, load succeeded
ModelLoaded == m_env.joblib /\ m_env.file /\ m_env.loads

\* C22: predict_mood_from_text never raises; without a loaded model it
\* returns None for every text; with one it returns None for empty text and
\* for a failing prediction, and otherwise a (label, confidence) pair taken
\* from the model's classes and probabilities.
C22_PredictNeverRaises ==
    m_pc = "done" =>
        /\ m_result.kind \in {"returned_none", "returned_pair"}
        /\ ~ModelLoaded => m_result = ReturnedNone
        /\ (m_text.isNone \/ m_text.chars = << >>) => m_result = ReturnedNone
        /\ (m_pred.raises \/ m_pred.proba = << >>) => m_result = ReturnedNone
        /\ m_result.kind = "returned_pair" =>
              /\ ModelLoaded
              /\ \E i \in 1..Len(m_pred.classes) :
                    /\ m_result.label = m_pred.classes[i]
                    /\ m_result.conf = m_pred.proba[i]

C22_Witness ==
    /\ m_pc = "done" /\ ModelLoaded /\ m_pred.raises
    /\ ~m_text.isNone /\ m_text.chars = <<"a">>
    /\ m_result = ReturnedNone

-----------------------------------------------------------------------------
(* Trailer choice: pick_best_youtube_trailer of src/app.py *)

MaxVideos == 2      \* longest videos list

TrailerScore == 50
OfficialNameScore == 20
OfficialFlagScore == 10
TeaserScore == 5

\* `sub in s`
Contains(s, sub) ==
    \E i \in 0..(Len(s) - Len(sub)) : SubSeq(s, i + 1, i + Len(sub)) = sub

\* str.lower() on the letters the video fields use
LowerWord(str) ==
    [i \in 1..Len(str) |->
        IF str[i] = "T" THEN "t" ELSE IF str[i] = "O" THEN "o" ELSE str[i]]

\* score(v)
Score(v) ==
    (IF Contains(LowerWord(v.type), <<"t", "r", "a", "i", "l", "e", "r">>) THEN TrailerScore ELSE 0)
    + (IF Contains(LowerWord(v.name), <<"o", "f", "f", "i", "c", "i", "a", "l">>) THEN OfficialNameScore ELSE 0)
    + (IF v.official THEN OfficialFlagScore ELSE 0)
    + (IF Contains(LowerWord(v.type), <<"t", "e", "a", "s", "e", "r">>) THEN TeaserScore ELSE 0)

\* yt = [v for v in videos if (v.get("site") == "YouTube" and v.get("key"))]
IsYoutube(v) == v.site = "YouTube" /\ v.key # ""

\* a sort by descending score that puts the later of two equal videos first
SortedByScoreTiesReversed(yt) ==
    LET rank(i) == Cardinality({j \in 1..Len(yt) :
                        \/ Score(yt[j]) > Score(yt[i])
                        \/ Score(yt[j]) = Score(yt[i]) /\ j > i})
    IN  [k \in 1..Len(yt) |-> yt[CHOOSE i \in 1..Len(yt) : rank(i) = k - 1]]

\* sorted(yt, key=score, reverse=True): descending score, and (the sort is
\* stable under reverse=True) input order among equal scores
SortedByScore(yt) ==
    LET rank(i) == Cardinality({j \in 1..Len(yt) :
                        \/ Score(yt[j]) > Score(yt[i])
                        \/ Score(yt[j]) = Score(yt[i]) /\ j < i})
    IN  [k \in 1..Len(yt) |-> yt[CHOOSE i \in 1..Len(yt) : rank(i) = k - 1]]

\* f"https://www.youtube.com/watch?v={best['key']}"
WatchUrl(key) == <<"https://www.youtube.com/watch?v=", key>>

PickBest(videos) ==
    LET yt == SelectSeq(videos, IsYoutube)
    IN  IF yt = << >> THEN << >> ELSE WatchUrl(SortedByScore(yt)[1].key)

Videos ==
    [site : {"YouTube"}, key : {"a", "b", "c"},
     type : {<<"T", "r", "a", "i", "l", "e", "r">>, <<"T", "e", "a", "s", "e", "r">>, <<"C", "l", "i", "p">>},
     name : {<<"O", "f", "f", "i", "c", "i", "a", "l">>, <<"C", "l", "i", "p">>}, official : BOOLEAN]
    \cup {[site |-> "Vimeo", key |-> "a", type |-> <<"T", "r", "a", "i", "l", "e", "r">>,
           name |-> <<"O", "f", "f", "i", "c", "i", "a", "l">>, official |-> TRUE],
          [site |-> "YouTube", key |-> "", type |-> <<"T", "r", "a", "i", "l", "e", "r">>,
           name |-> <<"O", "f", "f", "i", "c", "i", "a", "l">>, official |-> TRUE]}

VideoLists == UNION {[1..n -> Videos] : n \in 0..MaxVideos}

PickBestYoutubeTrailer ==
    /\ p_pc = "called"
    /\ p_result' = PickBest(p_videos)
    /\ p_pc' = "done"
    /\ UNCHANGED <<p_videos, notPick>>

InitPick ==
    /\ p_videos \in VideoLists
    /\ p_result = << >>
    /\ p_pc = "called"
    /\ RankIdle
    /\ ChunkIdle
    /\ SumIdle
    /\ FetchIdle
    /\ TmdbIdle
    /\ MoodIdle
    /\ BuildIdle

NextPick == PickBestYoutubeTrailer

SpecPick == InitPick /\ [][NextPick]_vars

-----------------------------------------------------------------------------
(* Trailer choice properties *)

\* the input positions holding a YouTube video with a non-empty key
YoutubeIdxs == {i \in 1..Len(p_videos) : IsYoutube(p_videos[i])}

\* C23: the result is None exactly when no video is a YouTube video with a
\* key; otherwise it is the URL of the earliest YouTube video of maximal
\* score, which has a trailer type whenever some YouTube video has one.
C23_BestTrailerChosen ==
    p_pc = "done" =>
        /\ p_result = << >> <=> YoutubeIdxs = {}
        /\ YoutubeIdxs # {} =>
            \E i \in YoutubeIdxs :
                /\ p_result = WatchUrl(p_videos[i].key)
                /\ \A j \in YoutubeIdxs :
                      /\ Score(p_videos[j]) <= Score(p_videos[i])
                      /\ j < i => Score(p_videos[j]) < Score(p_videos[i])
                /\ (\E j \in YoutubeIdxs : Contains(LowerWord(p_videos[j].type), <<"t", "r", "a", "i", "l", "e", "r">>))
                      => Contains(LowerWord(p_videos[i].type), <<"t", "r", "a", "i", "l", "e", "r">>)

C23_Witness ==
    /\ p_pc = "done" /\ Len(p_videos) = 2
    /\ IsYoutube(p_videos[1]) /\ IsYoutube(p_videos[2])
    /\ Score(p_videos[1]) = Score(p_videos[2])
    /\ p_videos[1].key = "a" /\ p_videos[2].key = "b"
    /\ p_result = WatchUrl("a")

-----------------------------------------------------------------------------
(* Dataset builder: build of src/ml/build_mood_dataset.py *)

MaxMoods   == 2     \* moods of MOODS that are iterated
MaxPages   == 2     \* largest `pages`
MaxPerMood == 2     \* largest `per_mood`
MaxResults == 2     \* longest "results" list of one page
MaxId      == 2     \* largest movie id

MinOverview == 40

\* MOODS, in iteration (insertion) order
MoodOrder ==
    SubSeq(<<"feel_good", "romantic", "spooky", "action", "mind_bending">>,
           1, MaxMoods)

\* one entry of "results": its id (0: missing or falsy) and the length of
\* its stripped overview
Movies == [id : 0..MaxId, overview : {MinOverview - 1, MinOverview}]

PageResults == UNION {[1..n -> Movies] : n \in 0..MaxResults}

BuildState(seen, rows, collected) ==
    [seen |-> seen, rows |-> rows, collected |-> collected]

\* `if not mid or mid in seen_ids: continue` without the seen_ids test
SkipsMovieUnseen(m, seen) == m.id = 0 \/ m.overview < MinOverview

\* if not mid or mid in seen_ids: continue
\* if len(overview) < 40: continue
SkipsMovie(m, seen) == m.id = 0 \/ m.id \in seen \/ m.overview < MinOverview

\* `for m in results:` from entry k on
RECURSIVE ProcessResults(_, _, _, _, _)
ProcessResults(results, k, mood, per_mood, st) ==
    IF k > Len(results) \/ st.collected >= per_mood THEN st
    ELSE IF SkipsMovie(results[k], st.seen)
         THEN ProcessResults(results, k + 1, mood, per_mood, st)
         ELSE ProcessResults(results, k + 1, mood, per_mood,
                  BuildState(st.seen \cup {results[k].id},
                             Append(st.rows, [id |-> results[k].id, label |-> mood]),
                             st.collected + 1))

MoodLoopRuns == b_pc = "loop" /\ b_mood <= Len(MoodOrder)
PageLoopRuns == MoodLoopRuns /\ b_page <= b_pages /\ b_collected < b_per_mood

\* one page of the inner loop: tmdb_get returned j, its results are processed
BuildFetchPage ==
    /\ PageLoopRuns
    /\ \E results \in PageResults :
          LET st == ProcessResults(results, 1, MoodOrder[b_mood], b_per_mood,
                                   BuildState(b_seen, b_rows, b_collected))
          IN  /\ b_seen' = st.seen
              /\ b_rows' = st.rows
              /\ b_collected' = st.collected
    /\ b_page' = b_page + 1
    /\ UNCHANGED <<b_per_mood, b_pages, b_mood, b_totals, b_file, b_pc, notBuild>>

\* tmdb_get raised (missing credentials, transport or HTTP error): build
\* has no handler, nothing is written
BuildFetchRaises ==
    /\ PageLoopRuns
    /\ b_pc' = "raised"
    /\ UNCHANGED <<b_per_mood, b_pages, b_mood, b_page, b_collected, b_seen,
                   b_rows, b_totals, b_file, notBuild>>

\* the inner loop ends (pages exhausted or `collected >= per_mood: break`);
\* the mood's total is printed and the next mood starts with collected = 0
BuildEndMood ==
    /\ MoodLoopRuns /\ ~PageLoopRuns
    /\ b_totals' = Append(b_totals, b_collected)
    /\ b_mood' = b_mood + 1
    /\ b_page' = 1
    /\ b_collected' = 0
    /\ UNCHANGED <<b_per_mood, b_pages, b_seen, b_rows, b_file, b_pc, notBuild>>

\* random.shuffle(rows), then one line per row is written
BuildWrite ==
    /\ b_pc = "loop" /\ b_mood > Len(MoodOrder)
    /\ \E p \in Permutations1(Len(b_rows)) :
          b_file' = [k \in 1..Len(b_rows) |-> b_rows[p[k]]]
    /\ b_pc' = "done"
    /\ UNCHANGED <<b_per_mood, b_pages, b_mood, b_page, b_collected, b_seen,
                   b_rows, b_totals, notBuild>>

InitBuild ==
    /\ b_per_mood \in 1..MaxPerMood
    /\ b_pages \in 1..MaxPages
    /\ b_mood = 1 /\ b_page = 1 /\ b_collected = 0
    /\ b_seen = {} /\ b_rows = << >> /\ b_totals = << >> /\ b_file = << >>
    /\ b_pc = "loop"
    /\ RankIdle
    /\ ChunkIdle
    /\ SumIdle
    /\ FetchIdle
    /\ TmdbIdle
    /\ MoodIdle
    /\ PickIdle

NextBuild ==
    \/ BuildFetchPage
    \/ BuildFetchRaises
    \/ BuildEndMood
    \/ BuildWrite

SpecBuild == InitBuild /\ [][NextBuild]_vars

-----------------------------------------------------------------------------
(* Dataset builder properties *)

DistinctIds(rows) ==
    \A i, j \in 1..Len(rows) : i # j => rows[i].id # rows[j].id

RowsLabelled(rows, mood) == {i \in 1..Len(rows) : rows[i].label = mood}

\* C24: at every point of build no movie id is in two rows, whatever the
\* moods; seen_ids holds exactly the recorded ids; rows are labelled in
\* MOODS order with the mood that was collecting; each finished mood's total
\* counts exactly the rows labelled with it, and the file holds the same rows.
C24_MovieRecordedOnce ==
    /\ DistinctIds(b_rows)
    /\ DistinctIds(b_file)
    /\ b_seen = {b_rows[i].id : i \in 1..Len(b_rows)}
    /\ \A i \in 1..Len(b_rows) :
          \E k \in 1..Min2(b_mood, Len(MoodOrder)) :
              /\ b_rows[i].label = MoodOrder[k]
              /\ \A j \in 1..(i - 1) : \E l \in 1..k : b_rows[j].label = MoodOrder[l]
    /\ \A k \in 1..Len(b_totals) :
          b_totals[k] = Cardinality(RowsLabelled(b_rows, MoodOrder[k]))
    /\ b_pc = "done" =>
          /\ Len(b_file) = Len(b_rows)
          /\ \A i \in 1..Len(b_rows) : \E j \in 1..Len(b_file) : b_file[j] = b_rows[i]

\* a movie recorded for the first mood came back for the second mood too
C24_Witness ==
    /\ b_pc = "done" /\ Len(b_rows) = 2 /\ b_per_mood = 2
    /\ b_rows[1].label = MoodOrder[1] /\ b_rows[2].label = MoodOrder[2]
    /\ b_totals = <<1, 1>>

====
